---- MODULE Spec2Model ----
(***************************************************************************)
(* scattermapbox convert(trace): a trace (points, optional lines, fill and *)
(* per-point marker styling) is converted into three mapbox layer          *)
(* descriptors {fill, lines, markers}.                                     *)
(*                                                                         *)
(* JavaScript values are modelled as records [t, n, s]: a number n is      *)
(* Num(n), a string is Str(s), NaN is its own value.  Array positions are  *)
(* 0-based as in the source; the TLA+ sequence holding array a keeps a[i]  *)
(* at position i + 1.                                                      *)
(***************************************************************************)
EXTENDS Integers, Sequences, FiniteSets, TLC

VARIABLES trace, pc, coords, fill, lines, markers, hash

vars == <<trace, pc, coords, fill, lines, markers, hash>>

\* longest lon/lat array drawn
MaxLen == 3
\* largest integer whose decimal numeral is recognised in a string
MaxNum == 4

COLOR_PROP == "circle-color"
SIZE_PROP == "circle-size"

----------------------------------------------------------------------------
\* JavaScript values

Num(n) == [t |-> "number", n |-> n, s |-> ""]
Str(s) == [t |-> "string", n |-> 0, s |-> s]
NaN == [t |-> "NaN", n |-> 0, s |-> ""]

\* the integers whose decimal numeral is the string s (at most one)
Numerals(s) == {n \in 0..MaxNum : ToString(n) = s}

\* String(v): the property key a value becomes when used as hash[key][v]
String(v) == IF v.t = "number" THEN ToString(v.n)
             ELSE IF v.t = "NaN" THEN "NaN" ELSE v.s

\* isNumeric(v): finite numbers and numeric strings
isNumeric(v) == \/ v.t = "number"
                \/ v.t = "string" /\ Numerals(v.s) # {}

\* +v: a number is itself, a numeric string its number, anything else NaN
ToNumber(v) == IF v.t = "number" THEN v
               ELSE IF v.t = "string" /\ Numerals(v.s) # {}
               THEN Num(CHOOSE n \in Numerals(v.s) : TRUE)
               ELSE NaN

\* a check that forgets the latitude
checkLonOnly(lon, lat) == isNumeric(lon)

checkLonLat(lon, lat) == isNumeric(lon) /\ isNumeric(lat)

getCoordLen(t) == Len(t.lon)

\* a[i] of a JavaScript array held as a sequence
At(a, i) == a[i + 1]

----------------------------------------------------------------------------
\* containers

makeBlankGeoJSON == [type |-> "Point", coordinates |-> <<>>]

initContainer == [geojson |-> makeBlankGeoJSON,
                  layout |-> [visibility |-> "none"],
                  paint |-> <<>>]

\* Lib.extendFlat(target, source): source's entries win
extendFlat(target, source) == source @@ target

----------------------------------------------------------------------------
\* getCoords

\* a last push that skips an empty lineString
PushLastNonEmpty(cs, lineString) ==
    IF Len(lineString) > 0 THEN Append(cs, lineString) ELSE cs

\* the last statement of getCoords: the open lineString is always pushed
PushLast(cs, lineString) == Append(cs, lineString)

\* a gap test that ignores connectgaps
ClosesLineAlways(connectgaps, lineString) == Len(lineString) > 0

\* the else-if branch of the loop: whether an invalid point closes lineString
ClosesLine(connectgaps, lineString) == ~connectgaps /\ Len(lineString) > 0

RECURSIVE getCoordsLoop(_, _, _, _)
getCoordsLoop(t, i, cs, lineString) ==
    IF i >= getCoordLen(t) THEN PushLast(cs, lineString)
    ELSE LET lon == At(t.lon, i)
             lat == At(t.lat, i)
         IN IF checkLonLat(lon, lat)
            THEN getCoordsLoop(t, i + 1, cs,
                               Append(lineString, <<ToNumber(lon), ToNumber(lat)>>))
            ELSE IF ClosesLine(t.connectgaps, lineString)
            THEN getCoordsLoop(t, i + 1, Append(cs, lineString), <<>>)
            ELSE getCoordsLoop(t, i + 1, cs, lineString)

getCoords(t) == getCoordsLoop(t, 0, <<>>, <<>>)

makeFillGeoJSON(t, cs) == [type |-> "Polygon", coordinates |-> cs]

makeLineGeoJSON(t, cs) == [type |-> "MultiLineString", coordinates |-> cs]

----------------------------------------------------------------------------
\* the val-to-index hash: a plain object, held as its entries in insertion
\* order

HashHas(h, k) == \E j \in DOMAIN h : h[j].key = k

HashGet(h, k) == h[CHOOSE j \in DOMAIN h : h[j].key = k].index

\* h[k] = v: an existing key keeps its place, a new key is added last
HashSet(h, k, v) ==
    IF HashHas(h, k)
    THEN [j \in DOMAIN h |-> IF h[j].key = k THEN [key |-> k, index |-> v] ELSE h[j]]
    ELSE Append(h, [key |-> k, index |-> v])

\* !h[k]: the key is absent, or the index recorded under it is 0
Falsy(h, k) == ~HashHas(h, k) \/ HashGet(h, k) = 0

\* translate(props, key, cont, index): returns the hash of `key` after the
\* call and the index written into props[key]
translate(h, cont, index) ==
    LET value == String(At(cont, index))
        h1 == IF Falsy(h, value) THEN HashSet(h, value, index) ELSE h
    IN [hash |-> h1, prop |-> HashGet(h1, value)]

\* Object.keys(h): array-index keys in ascending numeric order, then the
\* other keys in insertion order
RECURSIVE IndexKeysFrom(_, _)
IndexKeysFrom(h, n) ==
    IF n > MaxNum THEN <<>>
    ELSE (IF HashHas(h, ToString(n)) THEN <<ToString(n)>> ELSE <<>>)
         \o IndexKeysFrom(h, n + 1)

RECURSIVE NameKeys(_)
NameKeys(h) ==
    IF h = <<>> THEN <<>>
    ELSE (IF Numerals(Head(h).key) = {} THEN <<Head(h).key>> ELSE <<>>)
         \o NameKeys(Tail(h))

ObjectKeys(h) == IndexKeysFrom(h, 0) \o NameKeys(h)

----------------------------------------------------------------------------
\* makeMarkerGeoJSON

\* the keys of a feature's props: one per array-valued attribute
PropKeys(marker) == (IF marker.color.isArray THEN {COLOR_PROP} ELSE {})
                    \cup (IF marker.size.isArray THEN {SIZE_PROP} ELSE {})

RECURSIVE markerLoop(_, _, _, _)
markerLoop(t, i, hs, features) ==
    IF i >= getCoordLen(t) THEN [features |-> features, hash |-> hs]
    ELSE LET lon == At(t.lon, i)
             lat == At(t.lat, i)
             c == translate(hs[COLOR_PROP], t.marker.color.items, i)
             z == translate(hs[SIZE_PROP], t.marker.size.items, i)
             hs1 == [k \in {COLOR_PROP, SIZE_PROP} |->
                       IF k = COLOR_PROP
                       THEN (IF t.marker.color.isArray THEN c.hash ELSE hs[k])
                       ELSE (IF t.marker.size.isArray THEN z.hash ELSE hs[k])]
             props == [k \in PropKeys(t.marker) |->
                         IF k = COLOR_PROP THEN c.prop ELSE z.prop]
         IN IF checkLonLat(lon, lat)
            THEN markerLoop(t, i + 1, hs1,
                   Append(features,
                          [type |-> "Feature",
                           geometry |-> [type |-> "Point",
                                         coordinates |-> <<ToNumber(lon), ToNumber(lat)>>],
                           properties |-> props]))
            ELSE markerLoop(t, i + 1, hs1, features)

\* returns the geojson and the hash as the call leaves it
makeMarkerGeoJSON(t, hs) ==
    LET r == markerLoop(t, 0, hs, <<>>)
    IN [geojson |-> [type |-> "FeatureCollection", features |-> r.features],
        hash |-> r.hash]

----------------------------------------------------------------------------
\* stops

\* the colorscale function, the identity and the bubble size function are
\* applied to the key string val; the result is kept as the application
colorFn(t, val) == [fn |-> IF t.hasColorscale THEN "colorscale" ELSE "identity",
                    arg |-> val]

sizeFn(t, val) == [fn |-> "bubbleSize", arg |-> val]

\* the property name calcMarkerColor puts in its stop spec
ColorStopProperty == SIZE_PROP

\* the property name calcMarkerSize puts in its stop spec
SizeStopProperty == SIZE_PROP

RECURSIVE colorStops(_, _, _)
colorStops(t, h, vals) ==
    IF vals = <<>> THEN <<>>
    ELSE <<[index |-> HashGet(h, Head(vals)), value |-> colorFn(t, Head(vals))]>>
         \o colorStops(t, h, Tail(vals))

RECURSIVE sizeStops(_, _, _)
sizeStops(t, h, vals) ==
    IF vals = <<>> THEN <<>>
    ELSE <<[index |-> HashGet(h, Head(vals)), value |-> sizeFn(t, Head(vals))]>>
         \o sizeStops(t, h, Tail(vals))

\* stops.sort(function(a, b) { return a[0] - b[0]; })
RECURSIVE Insert(_, _)
Insert(sorted, x) ==
    IF sorted = <<>> THEN <<x>>
    ELSE IF x.index < Head(sorted).index THEN <<x>> \o sorted
    ELSE <<Head(sorted)>> \o Insert(Tail(sorted), x)

RECURSIVE SortStops(_)
SortStops(stops) ==
    IF stops = <<>> THEN <<>>
    ELSE Insert(SortStops(SubSeq(stops, 1, Len(stops) - 1)), stops[Len(stops)])

calcMarkerColor(t, hs) ==
    IF t.marker.color.isArray
    THEN [property |-> ColorStopProperty,
          stops |-> colorStops(t, hs[COLOR_PROP], ObjectKeys(hs[COLOR_PROP]))]
    ELSE t.marker.color.scalar

\* a scalar marker.size is a diameter; the model draws even diameters, on
\* which size / 2 is the integer quotient
calcMarkerSize(t, hs) ==
    IF t.marker.size.isArray
    THEN [property |-> SizeStopProperty,
          stops |-> SortStops(sizeStops(t, hs[SIZE_PROP], ObjectKeys(hs[SIZE_PROP])))]
    ELSE t.marker.size.scalar.n \div 2

----------------------------------------------------------------------------
\* convert

\* a visibility test by truthiness: 'legendonly' passes
isVisibleTruthy(t) == t.visible # "false"

\* trace.visible === true; visible is true, false or 'legendonly'
isVisible(t) == t.visible = "true"

hasFill(t) == t.fill # "none"

EmptyHash == [k \in {COLOR_PROP, SIZE_PROP} |-> <<>>]

NoCoords == [defined |-> FALSE, value |-> <<>>]

\* lines 34-37: coords is assigned only when fill or lines will use it
ConvertCoords ==
    /\ pc = "coords"
    /\ coords' = IF isVisible(trace) /\ (hasFill(trace) \/ trace.hasLines)
                 THEN [defined |-> TRUE, value |-> getCoords(trace)]
                 ELSE NoCoords
    /\ pc' = "fill"
    /\ UNCHANGED <<trace, fill, lines, markers, hash>>

\* lines 39-46
ConvertFill ==
    /\ pc = "fill"
    /\ fill' = IF isVisible(trace) /\ hasFill(trace)
               THEN [geojson |-> makeFillGeoJSON(trace, coords.value),
                     layout |-> [visibility |-> "visible"],
                     paint |-> extendFlat(fill.paint,
                                          [x \in {"fill-color"} |-> trace.fillcolor])]
               ELSE fill
    /\ pc' = "lines"
    /\ UNCHANGED <<trace, coords, lines, markers, hash>>

\* lines 48-62
ConvertLines ==
    /\ pc = "lines"
    /\ lines' = IF isVisible(trace) /\ trace.hasLines
                THEN [geojson |-> makeLineGeoJSON(trace, coords.value),
                      layout |-> [visibility |-> "visible"],
                      paint |-> extendFlat(lines.paint,
                                   [x \in {"line-width", "line-color", "line-opacity"} |->
                                      IF x = "line-width" THEN trace.line.width
                                      ELSE IF x = "line-color" THEN trace.line.color
                                      ELSE trace.opacity])]
                ELSE lines
    /\ pc' = "markers"
    /\ UNCHANGED <<trace, coords, fill, markers, hash>>

\* lines 64-77
ConvertMarkers ==
    /\ pc = "markers"
    /\ IF isVisible(trace) /\ trace.hasMarkers
       THEN LET m == makeMarkerGeoJSON(trace, EmptyHash)
            IN /\ hash' = m.hash
               /\ markers' =
                    [geojson |-> m.geojson,
                     layout |-> [visibility |-> "visible"],
                     paint |-> extendFlat(markers.paint,
                        [x \in {"circle-opacity", "circle-color", "circle-radius"} |->
                           IF x = "circle-opacity"
                           THEN trace.opacity * trace.marker.opacity
                           ELSE IF x = "circle-color"
                           THEN calcMarkerColor(trace, m.hash)
                           ELSE calcMarkerSize(trace, m.hash)])]
       ELSE UNCHANGED <<markers, hash>>
    /\ pc' = "done"
    /\ UNCHANGED <<trace, coords, fill, lines>>

Next == ConvertCoords \/ ConvertFill \/ ConvertLines \/ ConvertMarkers

----------------------------------------------------------------------------
\* inputs

\* lon, lat pairs: two valid points, one of them given as numeric strings,
\* and two invalid ones
Points == {<<Num(1), Num(2)>>, <<Str("3"), Str("4")>>,
           <<NaN, Num(1)>>, <<Num(1), Str("x")>>}

Scalar(v) == [isArray |-> FALSE, items |-> <<>>, scalar |-> v]
\* an array-valued attribute has no scalar; the field holds undefined
Array(a) == [isArray |-> TRUE, items |-> a, scalar |-> Str("undefined")]

SeqsOf(S, n) == [1..n -> S]

MakeTrace(visible, fillmode, hasLines, hasMarkers, connectgaps, pts, color, size, cs) ==
    [visible |-> visible, fill |-> fillmode, hasLines |-> hasLines,
     hasMarkers |-> hasMarkers, connectgaps |-> connectgaps,
     lon |-> [j \in DOMAIN pts |-> pts[j][1]],
     lat |-> [j \in DOMAIN pts |-> pts[j][2]],
     fillcolor |-> Str("fillcolor"),
     line |-> [width |-> 2, color |-> Str("linecolor")],
     opacity |-> 1,
     hasColorscale |-> cs,
     marker |-> [color |-> color, size |-> size, opacity |-> 1]]

InitRest ==
    /\ pc = "coords"
    /\ coords = NoCoords
    /\ fill = initContainer
    /\ lines = initContainer
    /\ markers = initContainer
    /\ hash = EmptyHash

\* the sequences of length at most MaxLen over S
SeqsUpTo(S) == UNION {SeqsOf(S, n) : n \in 0..MaxLen}

\* points of the marker and layer inputs: validity and distinct coordinates
MarkerPoints == {<<Num(1), Num(2)>>, <<Str("3"), Str("4")>>, <<NaN, Num(1)>>}

Visibles == {"true", "false", "legendonly"}
FillModes == {"none", "toself"}

ColorVals == {Str("a"), Str("b"), Num(1), Num(2)}
SizeVals == {Num(1), Num(2), Str("2")}
\* color, size pairs of the inputs whose two attributes are both arrays
PairVals == {<<Str("a"), Num(1)>>, <<Num(1), Str("2")>>}

ScalarColor == Scalar(Str("red"))
ScalarSize == Scalar(Num(10))

\* every lon/lat content and gap policy, scalar marker attributes
InitCoords ==
    \E pts \in SeqsUpTo(Points), fm \in FillModes, hl \in BOOLEAN,
       hm \in BOOLEAN, cg \in BOOLEAN :
        trace = MakeTrace("true", fm, hl, hm, cg, pts, ScalarColor, ScalarSize, FALSE)

\* every content of marker.color and of marker.size
InitMarkers ==
    \E n \in 0..MaxLen :
      \E pts \in SeqsOf(MarkerPoints, n) :
        \/ \E c \in SeqsOf(ColorVals, n), cs \in BOOLEAN :
              trace = MakeTrace("true", "none", FALSE, TRUE, FALSE, pts,
                                Array(c), ScalarSize, cs)
        \/ \E z \in SeqsOf(SizeVals, n) :
              trace = MakeTrace("true", "none", FALSE, TRUE, FALSE, pts,
                                ScalarColor, Array(z), FALSE)
        \/ \E cz \in SeqsOf(PairVals, n) :
              trace = MakeTrace("true", "toself", TRUE, TRUE, FALSE, pts,
                                Array([j \in 1..n |-> cz[j][1]]),
                                Array([j \in 1..n |-> cz[j][2]]), FALSE)

\* every combination of the flags that select the layers
InitLayers ==
    \E v \in Visibles, fm \in FillModes, hl \in BOOLEAN, hm \in BOOLEAN,
       cg \in BOOLEAN, arr \in BOOLEAN :
      \E n \in 0..MaxLen :
        \E pts \in SeqsOf({<<Num(1), Num(2)>>, <<NaN, Num(1)>>}, n) :
          trace = MakeTrace(v, fm, hl, hm, cg, pts,
                            IF arr THEN Array([j \in 1..n |-> Str("a")]) ELSE ScalarColor,
                            IF arr THEN Array([j \in 1..n |-> Num(1)]) ELSE ScalarSize,
                            FALSE)

Init == (InitCoords \/ InitMarkers \/ InitLayers) /\ InitRest

Spec == Init /\ [][Next]_vars

----------------------------------------------------------------------------
\* what the properties speak of

Positions(t) == 0..(Len(t.lon) - 1)

Valid(t, i) == isNumeric(At(t.lon, i)) /\ isNumeric(At(t.lat, i))

ValidPositions(t) == {i \in Positions(t) : Valid(t, i)}

PointAt(t, i) == <<ToNumber(At(t.lon, i)), ToNumber(At(t.lat, i))>>

\* the number of members of S below i
Rank(S, i) == Cardinality({j \in S : j < i})

\* the k-th smallest member of S
Nth(S, k) == CHOOSE i \in S : Rank(S, i) = k - 1

\* the valid points in original order
ValidPoints(t) ==
    [k \in 1..Cardinality(ValidPositions(t)) |-> PointAt(t, Nth(ValidPositions(t), k))]

\* the maximal runs of consecutive valid points, in order
RunStarts(t) == {i \in ValidPositions(t) : i = 0 \/ ~Valid(t, i - 1)}

RunEnd(t, s) == CHOOSE e \in s..(Len(t.lon) - 1) :
                    /\ \A j \in s..e : Valid(t, j)
                    /\ e = Len(t.lon) - 1 \/ ~Valid(t, e + 1)

Run(t, s) == [k \in 1..(RunEnd(t, s) - s + 1) |-> PointAt(t, s + k - 1)]

Runs(t) == [k \in 1..Cardinality(RunStarts(t)) |-> Run(t, Nth(RunStarts(t), k))]

Attr(t, key) == IF key = COLOR_PROP THEN t.marker.color ELSE t.marker.size

ArrayKeys(t) == {key \in {COLOR_PROP, SIZE_PROP} : Attr(t, key).isArray}

\* the paint entry that carries the stop spec of a feature-property key
PaintName(key) == IF key = COLOR_PROP THEN "circle-color" ELSE "circle-radius"

Rendering(t, key, raw) ==
    IF key = COLOR_PROP THEN colorFn(t, String(raw)) ELSE sizeFn(t, String(raw))

Placeholder(layer) ==
    /\ layer.geojson = [type |-> "Point", coordinates |-> <<>>]
    /\ layer.layout = [visibility |-> "none"]
    /\ DOMAIN layer.paint = {}

\* convert has returned a marker layer
MarkersEmitted == pc = "done" /\ trace.visible = "true" /\ trace.hasMarkers

\* the feature of the valid point at position i
FeatureOf(i) == markers.geojson.features[Rank(ValidPositions(trace), i) + 1]

StopsOf(key) == markers.paint[PaintName(key)].stops

Ascending(stops) ==
    \A a, b \in DOMAIN stops : a < b => stops[a].index <= stops[b].index

----------------------------------------------------------------------------
\* C1: within one array-valued attribute, two points that carry equal raw
\* values get the same index in their feature properties: the index recorded
\* at the first occurrence is never overwritten, position 0 included.
C1_EqualValuesShareIndex ==
    MarkersEmitted =>
      \A key \in ArrayKeys(trace) :
        \A i, j \in ValidPositions(trace) :
          (i < j /\ At(Attr(trace, key).items, i) = At(Attr(trace, key).items, j))
            => FeatureOf(i).properties[key] = FeatureOf(j).properties[key]

\* C2: every stop list of an array-valued attribute, the circle-color one
\* and the circle-radius one, is sorted ascending by index.
C2_StopListsSorted ==
    MarkersEmitted => \A key \in ArrayKeys(trace) : Ascending(StopsOf(key))

\* C3: the index in a feature's properties is the key of exactly one stop of
\* the attribute's stop list, and that stop's value is the rendering of the
\* raw value the point carries.
C3_FeatureIndexHasItsStop ==
    MarkersEmitted =>
      \A key \in ArrayKeys(trace) :
        \A i \in ValidPositions(trace) :
          LET stops == StopsOf(key)
              hits == {a \in DOMAIN stops : stops[a].index = FeatureOf(i).properties[key]}
          IN /\ Cardinality(hits) = 1
             /\ \A a \in hits :
                  stops[a].value = Rendering(trace, key, At(Attr(trace, key).items, i))

\* C4: with connectgaps false and at least one valid point, getCoords
\* returns the maximal runs of consecutive valid points, one sub-sequence
\* per run, in order.
C4_SubsequencesAreRuns ==
    (coords.defined /\ ~trace.connectgaps /\ ValidPositions(trace) # {})
      => coords.value = Runs(trace)

\* C5: a layer is visible iff the trace is visible and the layer is asked
\* for (fill mode not 'none', lines flag, markers flag); every other layer
\* is the hidden placeholder.
C5_LayersFollowFlags ==
    pc = "done" =>
      /\ fill.layout.visibility = "visible"
           <=> (trace.visible = "true" /\ trace.fill # "none")
      /\ lines.layout.visibility = "visible"
           <=> (trace.visible = "true" /\ trace.hasLines)
      /\ markers.layout.visibility = "visible"
           <=> (trace.visible = "true" /\ trace.hasMarkers)
      /\ \A layer \in {fill, lines, markers} :
           layer.layout.visibility # "visible" => Placeholder(layer)

\* one layer emitted, the two others left as placeholders
C5_Witness ==
    /\ pc = "done"
    /\ trace.visible = "true" /\ trace.hasLines /\ ~trace.hasMarkers
    /\ trace.fill = "none"
    /\ ValidPositions(trace) # {}
    /\ lines.geojson.type = "MultiLineString"
    /\ Placeholder(fill) /\ Placeholder(markers)

\* C6: the marker features are the valid points in original order, one
\* Point feature each, and a feature's properties has an entry for an
\* attribute iff the attribute is array-valued.
C6_FeaturesAreValidPoints ==
    MarkersEmitted =>
      LET fs == markers.geojson.features
      IN /\ markers.geojson.type = "FeatureCollection"
         /\ Len(fs) = Cardinality(ValidPositions(trace))
         /\ \A k \in DOMAIN fs :
              /\ fs[k].type = "Feature"
              /\ fs[k].geometry = [type |-> "Point",
                                   coordinates |-> ValidPoints(trace)[k]]
              /\ DOMAIN fs[k].properties = ArrayKeys(trace)

\* an invalid point between two different valid ones, one array attribute
C6_Witness ==
    /\ MarkersEmitted
    /\ Len(trace.lon) = 3
    /\ ValidPositions(trace) = {0, 2}
    /\ PointAt(trace, 0) # PointAt(trace, 2)
    /\ ArrayKeys(trace) = {COLOR_PROP}
    /\ Len(markers.geojson.features) = 2

\* C7: with connectgaps true, getCoords returns exactly one sub-sequence,
\* the valid points in original order.
C7_ConnectGapsOneSubsequence ==
    (coords.defined /\ trace.connectgaps) => coords.value = <<ValidPoints(trace)>>

\* a gap between two valid points is bridged
C7_Witness ==
    /\ coords.defined /\ trace.connectgaps
    /\ Len(trace.lon) = 3
    /\ ValidPositions(trace) = {0, 2}
    /\ Len(coords.value) = 1
    /\ Len(coords.value[1]) = 2

\* C8: getCoords returns at least one sub-sequence, and exactly one empty
\* sub-sequence when no point is valid.
C8_AtLeastOneSubsequence ==
    coords.defined =>
      /\ Len(coords.value) >= 1
      /\ ValidPositions(trace) = {} => coords.value = << <<>> >>

\* points are present and none is valid
C8_Witness ==
    /\ coords.defined
    /\ Len(trace.lon) >= 2
    /\ ValidPositions(trace) = {}
    /\ coords.value = << <<>> >>

\* C9: every index recorded in the index map, and every stop key, is the
\* position of a valid point, and a raw value carried only by invalid
\* points produces no stop.
C9_IndicesFromValidPoints ==
    MarkersEmitted =>
      \A key \in ArrayKeys(trace) :
        /\ \A e \in DOMAIN hash[key] : hash[key][e].index \in ValidPositions(trace)
        /\ \A a \in DOMAIN StopsOf(key) :
             StopsOf(key)[a].index \in ValidPositions(trace)
        /\ \A i \in Positions(trace) :
             (\A j \in ValidPositions(trace) :
                 String(At(Attr(trace, key).items, j)) # String(At(Attr(trace, key).items, i)))
               => \A a \in DOMAIN StopsOf(key) :
                    StopsOf(key)[a].value
                      # Rendering(trace, key, At(Attr(trace, key).items, i))

\* C10: the stop spec of an array-valued attribute names the feature
\* property under which makeMarkerGeoJSON stored that attribute's index.
C10_StopSpecNamesFeatureKey ==
    MarkersEmitted =>
      \A key \in ArrayKeys(trace) : markers.paint[PaintName(key)].property = key

====
